---- MODULE Spec2Model ----
(***************************************************************************)
(* A model of node-dgram (src/src/node-dgram.js): one Socket, its work     *)
(* queue and drain loop (schedule / awake), the three tasks (Spawn, Send,  *)
(* Close), and the message pump (listen).                                  *)
(*                                                                         *)
(* Every `await` of the source is a step boundary: the code between two    *)
(* awaits is one atomic step, and calls of the public methods (bind, send, *)
(* close) and the steps of the pump interleave with the steps of the drain *)
(* loop at those boundaries.  The host collaborators (lib.dns,             *)
(* lib.UDPSocket and the handle it creates) settle every call either way:  *)
(* the outcome is a nondeterministic choice.                               *)
(*                                                                         *)
(* Listeners and the callbacks of send are taken to return normally and   *)
(* the socket to have an "error" listener, so that EventEmitter.emit       *)
(* itself never throws.                                                    *)
(***************************************************************************)
EXTENDS Integers, Sequences, FiniteSets, TLC

\* -------------------------------------------------------------------------
\* Bounds of the model
\* -------------------------------------------------------------------------

\* calls of bind / send / close made on the socket
MaxCalls == 3

\* calls of the host (resolve, create, send, close) that fail
MaxFailures == 1

\* calls of bind / send / close made on the socket while datagrams arrive
MaxPumpCalls == 2

\* datagrams that arrive on the underlying sockets
MaxDatagrams == 2

\* calls made on the socket when address() and the multicast controls are called
MaxControlCalls == 4

\* calls of bind / send / close made on the socket whose sends are validated
MaxArgCalls == 2

\* -------------------------------------------------------------------------
\* JavaScript values
\* -------------------------------------------------------------------------

Undef == [t |-> "undefined"]

Null == [t |-> "null"]

Num(n) == [t |-> "number", v |-> n]

Str(s) == [t |-> "string", v |-> s]

Fn(name) == [t |-> "function", name |-> name]

\* a Uint8Array (or Buffer): a view of bytes start..end-1 of an ArrayBuffer
U8(data, start, end) == [t |-> "Uint8Array", data |-> data, start |-> start, end |-> end]

Arr(items) == [t |-> "Array", items |-> items]

\* the options object of bind
BindOptions(port, address, exclusive) ==
  [t |-> "object", port |-> port, address |-> address, exclusive |-> exclusive]

typeof(v) == IF v.t \in {"undefined", "number", "string", "function"} THEN v.t ELSE "object"

\* ToBoolean
Truthy(v) ==
  CASE v.t \in {"undefined", "null"} -> FALSE
    [] v.t = "number" -> v.v # 0
    [] v.t = "string" -> v.v # ""
    [] OTHER -> TRUE

\* args[i] of a rest parameter: undefined past the end
Arg(args, i) == IF i <= Len(args) THEN args[i] ELSE Undef

\* -------------------------------------------------------------------------
\* Constants of the source
\* -------------------------------------------------------------------------

BIND_STATE_UNBOUND == 0

BIND_STATE_BINDING == 1

BIND_STATE_BOUND == 2

\* -------------------------------------------------------------------------
\* Tasks, and the records of what the socket did
\* -------------------------------------------------------------------------

Spawn(id, address, port) ==
  [kind |-> "Spawn", id |-> id, address |-> address, port |-> port]

Send(id, list, port, address, callback) ==
  [kind |-> "Send", id |-> id, list |-> list, port |-> port,
   address |-> address, callback |-> callback]

Close(id) == [kind |-> "Close", id |-> id]

NoTask == [kind |-> "none", id |-> 0]

\* one activation of awake(): its local index, the task it awaits and where
\* that task's perform() is suspended, with perform's locals
NewLoop ==
  [index |-> 0, pc |-> "while", task |-> NoTask, handle |-> 0, host |-> "",
   options |-> Undef, i |-> 0]

\* a call of the host, or of a send's callback, is recorded
Logged(s, e) == [s EXCEPT !.io = Append(@, e)]

\* EventEmitter.emit(ev, arg) from task `by` (0: the pump): the listeners
\* that once("listening") and on("close") registered are called, and the
\* one-shot ones are removed
emit(s, ev, arg, by) ==
  LET n == IF ev \in DOMAIN s.listeners THEN s.listeners[ev] ELSE 0
      s1 == [s EXCEPT !.events = Append(@, [ev |-> ev, arg |-> arg, by |-> by,
                                            called |-> n])]
  IN  IF ev = "listening" THEN [s1 EXCEPT !.listeners["listening"] = 0] ELSE s1

\* -------------------------------------------------------------------------
\* The host: DNS and the underlying socket
\* -------------------------------------------------------------------------

\* the addresses of the record lib.dns.resolve(hostname) resolves to
DNSRecord(hostname) ==
  CASE hostname = "peer.example" -> <<"192.0.2.7", "192.0.2.8">>
    [] hostname = "localhost" -> <<"127.0.0.1", "::1">>
    [] OTHER -> <<hostname>>

\* how a call of a host collaborator settles
Outcomes == {"ok", "fail"}

\* the underlying socket lib.UDPSocket.create(options) resolves to
NewHandle(options) ==
  [options |-> options, closeCalled |-> FALSE, inbound |-> <<>>, pump |-> "none"]

\* -------------------------------------------------------------------------
\* Helpers on the state record
\* -------------------------------------------------------------------------

\* the identity of the next task constructed
NextId(s) == Len(s.enqueued) + 1

RemoveAt(seq, i) == SubSeq(seq, 1, i - 1) \o SubSeq(seq, i + 1, Len(seq))

\* task.perform() resolved: awake's `await task.perform()` resumes in a later step
Completed(s, li) ==
  [s EXCEPT !.completed = Append(@, s.loops[li].task.id), !.loops[li].pc = "performed"]

\* task.perform() rejected: `await task.perform()` throws inside awake, whose
\* promise rejects with nobody awaiting it; the rest of awake never runs
Rejected(s, li, error) ==
  [s EXCEPT !.rejected = Append(@, [id |-> s.loops[li].task.id, error |-> error]),
            !.loops = RemoveAt(@, li)]

toNodeFamily(family) == IF family = 2 THEN "udp6" ELSE "udp4"

\* -------------------------------------------------------------------------
\* Spawn.perform
\* -------------------------------------------------------------------------

\* up to `await socket.dns.resolve(address)`
SpawnPerform(s, li) == [s EXCEPT !.loops[li].pc = "spawn_resolve"]

\* the catch block without the reset of _bindState
SpawnCatch_without_reset(s, li, error) ==
  Completed(emit(s, "error", error, s.loops[li].task.id), li)

\* the catch block
SpawnCatch(s, li, error) ==
  LET s1 == [s EXCEPT !._bindState = BIND_STATE_UNBOUND]
  IN  Completed(emit(s1, "error", error, s.loops[li].task.id), li)

\* the options of lib.UDPSocket.create
SpawnOptions(host, port, addressReuse) ==
  IF port.t \notin {"undefined", "null"} /\ port # Num(0)
    THEN [host |-> host, port |-> port.v, addressReuse |-> addressReuse]
    ELSE [host |-> host, addressReuse |-> addressReuse]

\* the pump is started: listen() runs up to its first `for await`
listen(s, h) == [s EXCEPT !.handles[h].pump = "running"]

\* from the resolution of dns.resolve to `await lib.UDPSocket.create(options)`
SpawnResolved(s, li, outcome) ==
  LET task == s.loops[li].task IN
  IF outcome = "fail" THEN SpawnCatch(s, li, "EDNS")
  ELSE LET host == DNSRecord(task.address.v)[1]
           options == SpawnOptions(host, task.port, s._reuseAddr)
           s1 == Logged(s, [k |-> "create", id |-> task.id, options |-> options])
       IN  [s1 EXCEPT !.loops[li].pc = "spawn_create", !.loops[li].options = options]

\* from the resolution of create to the end of perform
SpawnCreated(s, li, outcome) ==
  LET task == s.loops[li].task IN
  IF outcome = "fail" THEN SpawnCatch(s, li, "ECREATE")
  ELSE LET h == Len(s.handles) + 1
           s1 == [s EXCEPT !.handles = Append(@, NewHandle(s.loops[li].options)),
                           !._handle = h]
           s2 == emit(s1, "listening", task.id, task.id)
       IN  Completed(listen(s2, h), li)

\* -------------------------------------------------------------------------
\* Send.perform
\* -------------------------------------------------------------------------

\* up to `await socket.dns.resolve(address)`: _handle is read before the await
SendPerform(s, li) ==
  [s EXCEPT !.loops[li].pc = "send_resolve", !.loops[li].handle = s._handle]

\* `await _handle.send(host, port, buffer)` for the i-th element of the list:
\* `for (const { buffer } of list)` takes the element's ArrayBuffer
SendNext(s, li, i) ==
  LET l == s.loops[li]
      s1 == Logged(s, [k |-> "send", id |-> l.task.id, i |-> i, handle |-> l.handle,
                       host |-> l.host, port |-> l.task.port,
                       data |-> l.task.list[i].data])
  IN  [s1 EXCEPT !.loops[li].pc = "send_send", !.loops[li].i = i]

\* from the resolution of dns.resolve to the first `await _handle.send`
SendResolved(s, li, outcome) ==
  LET task == s.loops[li].task IN
  IF outcome = "fail" THEN Rejected(s, li, "EDNS")
  ELSE LET s1 == [s EXCEPT !.loops[li].host = DNSRecord(task.address.v)[1]]
       IN  IF s.loops[li].handle # 0 THEN SendNext(s1, li, 1) ELSE Completed(s1, li)

\* Send.perform catching a failed transmission inside its loop and going on
\* with the next buffer
SendSent_goes_on(s, li, outcome) ==
  LET l == s.loops[li]
      s0 == Logged(s, [k |-> "sent", id |-> l.task.id, i |-> l.i, ok |-> outcome = "ok"])
      s1 == IF outcome = "fail" /\ Truthy(l.task.callback)
              THEN Logged(s0, [k |-> "callback", id |-> l.task.id, arg |-> "ESEND"])
              ELSE s0
  IN  IF l.i < Len(l.task.list) THEN SendNext(s1, li, l.i + 1)
      ELSE IF Truthy(l.task.callback) THEN [s1 EXCEPT !.loops[li].pc = "send_timeout"]
      ELSE Completed(s1, li)

\* from the resolution of _handle.send to the next await or the end
SendSent(s, li, outcome) ==
  LET l == s.loops[li]
      s1 == Logged(s, [k |-> "sent", id |-> l.task.id, i |-> l.i, ok |-> outcome = "ok"])
  IN  IF outcome = "fail"
        THEN IF Truthy(l.task.callback)
               THEN Completed(Logged(s1, [k |-> "callback", id |-> l.task.id,
                                          arg |-> "ESEND"]), li)
               ELSE Completed(s1, li)
      ELSE IF l.i < Len(l.task.list) THEN SendNext(s1, li, l.i + 1)
      ELSE IF Truthy(l.task.callback) THEN [s1 EXCEPT !.loops[li].pc = "send_timeout"]
      ELSE Completed(s1, li)

\* the 20 ms timer fired: callback(null)
SendTimeout(s, li) ==
  Completed(Logged(s, [k |-> "callback", id |-> s.loops[li].task.id, arg |-> "null"]), li)

\* -------------------------------------------------------------------------
\* Close.perform
\* -------------------------------------------------------------------------

\* Close.perform ignoring a socket that has no handle
ClosePerform_silent(s, li) ==
  LET task == s.loops[li].task IN
  IF s._handle = 0
    THEN Completed(s, li)
    ELSE LET h == s._handle
             s1 == [s EXCEPT !._handle = 0, !.handles[h].closeCalled = TRUE]
             s2 == Logged(s1, [k |-> "close", id |-> task.id, handle |-> h])
         IN  [s2 EXCEPT !.loops[li].pc = "close_close"]

\* Close.perform leaving socket._handle set while it closes the handle
ClosePerform_keeps_handle(s, li) ==
  LET task == s.loops[li].task IN
  IF s._handle = 0
    THEN Completed(emit(s, "error", "ERR_SOCKET_DGRAM_NOT_RUNNING", task.id), li)
    ELSE LET h == s._handle
             s1 == [s EXCEPT !.handles[h].closeCalled = TRUE]
             s2 == Logged(s1, [k |-> "close", id |-> task.id, handle |-> h])
         IN  [s2 EXCEPT !.loops[li].pc = "close_close"]

\* up to `await handle.close()`, or to the end when _healthCheck throws
ClosePerform(s, li) ==
  LET task == s.loops[li].task IN
  IF s._handle = 0
    THEN Completed(emit(s, "error", "ERR_SOCKET_DGRAM_NOT_RUNNING", task.id), li)
    ELSE LET h == s._handle
             s1 == [s EXCEPT !._handle = 0, !.handles[h].closeCalled = TRUE]
             s2 == Logged(s1, [k |-> "close", id |-> task.id, handle |-> h])
         IN  [s2 EXCEPT !.loops[li].pc = "close_close"]

\* Close.perform emitting "close" itself once the handle is closed
CloseClosed_emits_close(s, li, outcome) ==
  IF outcome = "fail"
    THEN Completed(emit(s, "error", "ECLOSE", s.loops[li].task.id), li)
    ELSE Completed(emit(s, "close", Undef, s.loops[li].task.id), li)

\* Close.perform also resetting _bindState once the handle is closed
CloseClosed_unbinds(s, li, outcome) ==
  IF outcome = "fail"
    THEN Completed(emit(s, "error", "ECLOSE", s.loops[li].task.id), li)
    ELSE Completed([s EXCEPT !._bindState = BIND_STATE_UNBOUND], li)

\* from the resolution of handle.close() to the end
CloseClosed(s, li, outcome) ==
  IF outcome = "fail"
    THEN Completed(emit(s, "error", "ECLOSE", s.loops[li].task.id), li)
    ELSE Completed(s, li)

\* -------------------------------------------------------------------------
\* The scheduler
\* -------------------------------------------------------------------------

\* task.perform() up to its first await
perform(s, li) ==
  LET kind == s.loops[li].task.kind IN
  CASE kind = "Spawn" -> SpawnPerform(s, li)
    [] kind = "Send" -> SendPerform(s, li)
    [] kind = "Close" -> ClosePerform(s, li)

\* drain taking the newest task first
drain_newest_first(s, li) ==
  LET index == s.loops[li].index IN
  IF index < Len(s.workQueue)
    THEN LET task == s.workQueue[Len(s.workQueue) - index]
             s1 == [s EXCEPT !.loops[li].index = index + 1, !.loops[li].task = task]
         IN  perform([s1 EXCEPT !.started = Append(@, task.id)], li)
    ELSE [s EXCEPT !.workQueue = <<>>, !.isIdle = TRUE, !.loops = RemoveAt(@, li)]

\* the head of awake's while loop, up to `await task.perform()`, and the two
\* statements after the loop
drain(s, li) ==
  LET index == s.loops[li].index IN
  IF index < Len(s.workQueue)
    THEN LET task == s.workQueue[index + 1]
             s1 == [s EXCEPT !.loops[li].index = index + 1, !.loops[li].task = task]
         IN  perform([s1 EXCEPT !.started = Append(@, task.id)], li)
    ELSE [s EXCEPT !.workQueue = <<>>, !.isIdle = TRUE, !.loops = RemoveAt(@, li)]

awake(s) ==
  IF s.isIdle
    THEN drain([s EXCEPT !.isIdle = FALSE, !.loops = Append(@, NewLoop)], Len(s.loops) + 1)
    ELSE s

\* schedule waking the loop whether or not it is idle
schedule_always_awake(s, task) ==
  LET s1 == [s EXCEPT !.workQueue = Append(@, task),
                      !.enqueued = Append(@, [task |-> task, after |-> Len(s.completed)])]
  IN  drain([s1 EXCEPT !.isIdle = FALSE, !.loops = Append(@, NewLoop)], Len(s1.loops) + 1)

schedule(s, task) ==
  LET s1 == [s EXCEPT !.workQueue = Append(@, task),
                      !.enqueued = Append(@, [task |-> task, after |-> Len(s.completed)])]
  IN  IF s1.isIdle THEN awake(s1) ELSE s1

\* -------------------------------------------------------------------------
\* Buffers
\* -------------------------------------------------------------------------

\* the UTF-8 encoding of the strings the model sends
Utf8(string) ==
  CASE string = "" -> <<>>
    [] string = "a" -> <<97>>
    [] string = "b" -> <<98>>
    [] string = "h\\'e" -> <<104, 195, 169>>

\* Buffer.from(string): a fresh ArrayBuffer of exactly the encoded bytes
BufferFrom(string) == U8(Utf8(string), 0, Len(Utf8(string)))

\* Buffer.alloc(0)
BufferAlloc0 == U8(<<>>, 0, 0)

\* the bytes a Uint8Array shows
Contents(buffer) == SubSeq(buffer.data, buffer.start + 1, buffer.end)

Min(a, b) == IF a < b THEN a ELSE b

Max(a, b) == IF a > b THEN a ELSE b

\* ToNumber(value) for the values the model passes where a number is expected,
\* with 0 for NaN (which is what >>> 0 makes of it): a numeric string converts
\* to its number; undefined, functions and other strings convert to NaN
ToNumber(value) ==
  CASE value.t = "number" -> value.v
    [] value.t = "string" /\ value.v = "4000" -> 4000
    [] OTHER -> 0

\* value >>> 0 (ToUint32), as the two 16-bit halves of the result: the number
\* is taken modulo 2^32
ToUint32(value) ==
  LET n == ToNumber(value)
      lo == n % 65536
  IN  [hi |-> ((n - lo) \div 65536) % 65536, lo |-> lo]

\* Math.min(u, cap) for an unsigned 32-bit u and cap < 65536
MinU32(u, cap) == IF u.hi # 0 THEN cap ELSE Min(u.lo, cap)

\* buffer.slice(start, start + length) for unsigned 32-bit start and length:
\* a view of the same ArrayBuffer, with both ends clamped to the buffer
BufferSlice(buffer, start, length) ==
  LET len == buffer.end - buffer.start
      from == MinU32(start, len)
      to == Min(from + MinU32(length, len), len)
  IN  U8(buffer.data, buffer.start + from, buffer.start + Max(to, from))

\* sliceBuffer(source, offset, length): [thrown, buffer]
sliceBuffer(source, offset, length) ==
  IF source.t \notin {"string", "Uint8Array"}
    THEN [thrown |-> "ERR_INVALID_ARG_TYPE", buffer |-> source]
    ELSE LET buffer == IF source.t = "string" THEN BufferFrom(source.v) ELSE source
         IN  [thrown |-> "none",
              buffer |-> BufferSlice(buffer, ToUint32(offset), ToUint32(length))]

\* fixBufferList(list): Null, or the list with its strings converted
fixBufferList(list) ==
  IF \E i \in 1..Len(list) : list[i].t \notin {"string", "Uint8Array"}
    THEN Null
    ELSE Arr([i \in 1..Len(list) |->
               IF list[i].t = "string" THEN BufferFrom(list[i].v) ELSE list[i]])

\* -------------------------------------------------------------------------
\* The public methods: each gives [thrown, s], the exception thrown ("none"
\* when it returns) and the state it leaves
\* -------------------------------------------------------------------------

Returned(s) == [thrown |-> "none", s |-> s]

Thrown(s, error) == [thrown |-> error, s |-> s]

\* the check refusing only a socket that has a handle
AlreadyBound_with_handle(s) == s._handle # 0

\* the check refusing only a socket that is BOUND
AlreadyBound_when_bound(s) == s._bindState = BIND_STATE_BOUND

\* the check at the head of bind
AlreadyBound(s) == s._bindState # BIND_STATE_UNBOUND

bind(s, args) ==
  IF AlreadyBound(s) THEN Thrown(s, "ERR_SOCKET_ALREADY_BOUND")
  ELSE
    LET port_ == Arg(args, 1)
        address_ == Arg(args, 2)
        s1 == [s EXCEPT !._bindState = BIND_STATE_BINDING]
        s2 == IF Len(args) > 0 /\ typeof(args[Len(args)]) = "function"
                THEN [s1 EXCEPT !.listeners["listening"] = @ + 1]
                ELSE s1
        isOptions == port_.t = "object"
        given == IF isOptions
                   THEN (IF Truthy(port_.address) THEN port_.address ELSE Str(""))
                   ELSE (IF typeof(address_) = "function" THEN Str("") ELSE address_)
        port == IF isOptions THEN port_.port ELSE port_
        address == IF Truthy(given) THEN given
                   ELSE IF s.type = "udp4" THEN Str("0.0.0.0") ELSE Str("::")
    IN  Returned(schedule(s2, Spawn(NextId(s2), address, port)))

\* the implicit bind of every socket that has no handle
NeedsBind_without_handle(s) == s._handle = 0

\* send's test for the implicit bind
NeedsBind(s) == s._bindState = BIND_STATE_UNBOUND

\* the test of a port after port >>> 0 keeping its low 16 bits only
BadPort_16bit(port) == port.lo = 0

\* port === 0 || port > 65535, for the halves of port >>> 0
BadPort(port) == port = [hi |-> 0, lo |-> 0] \/ port.hi # 0

\* what send makes of its arguments, up to the test of _bindState: the error
\* it throws ("none" when it goes on) and the list, port, host and callback
sendArguments(s, buffer_, args) ==
  LET a3 == Arg(args, 3)
      a4 == Arg(args, 4)
      sliced == Truthy(a4) \/ (Truthy(a3) /\ typeof(a3) # "function")
      slice == sliceBuffer(buffer_, Arg(args, 1), Arg(args, 2))
      buffer == IF sliced THEN slice.buffer ELSE buffer_
      port_ == IF sliced THEN a3 ELSE Arg(args, 1)
      address_ == IF sliced THEN a4 ELSE Arg(args, 2)
      callback_ == IF sliced THEN Arg(args, 5) ELSE a3
      fixed == IF buffer.t = "Array" THEN fixBufferList(buffer.items) ELSE Null
      list == CASE buffer.t = "Array" /\ fixed # Null -> fixed.items
                [] buffer.t = "string" -> <<BufferFrom(buffer.v)>>
                [] OTHER -> <<buffer>>
      port == ToUint32(port_)
      callback1 == IF typeof(callback_) # "function" THEN Undef ELSE callback_
      callback == IF typeof(address_) = "function" THEN address_ ELSE callback1
      address == IF typeof(address_) = "function" THEN Undef ELSE address_
      thrown ==
        IF sliced /\ slice.thrown # "none" THEN slice.thrown
        ELSE IF buffer.t = "Array" /\ fixed = Null THEN "ERR_INVALID_ARG_TYPE"
        ELSE IF buffer.t \notin {"Array", "string", "Uint8Array"} THEN "ERR_INVALID_ARG_TYPE"
        ELSE IF BadPort(port) THEN "ERR_SOCKET_BAD_PORT"
        ELSE IF typeof(address_) # "function" /\ Truthy(address_) /\
                typeof(address_) # "string" THEN "ERR_INVALID_ARG_TYPE"
        ELSE "none"
  IN  [thrown |-> thrown,
       list |-> IF Len(list) = 0 THEN <<BufferAlloc0>> ELSE list,
       port |-> port.lo,
       host |-> IF Truthy(address) THEN address
                ELSE IF s.type = "udp4" THEN Str("127.0.0.1") ELSE Str("::1"),
       callback |-> callback]

\* send binding an UNBOUND socket before it looks at its arguments
send_binds_first(s, buffer_, args) ==
  LET a == sendArguments(s, buffer_, args)
      implicit == IF NeedsBind(s)
                    THEN bind(s, <<BindOptions(Num(0), Undef, TRUE), Null>>)
                    ELSE Returned(s)
      bound == implicit.s
  IN  IF implicit.thrown # "none" THEN Thrown(s, implicit.thrown)
      ELSE IF a.thrown # "none" THEN Thrown(bound, a.thrown)
      ELSE Returned(schedule(bound, Send(NextId(bound), a.list, a.port, a.host, a.callback)))

send(s, buffer_, args) ==
  LET a == sendArguments(s, buffer_, args)
      implicit == IF NeedsBind(s)
                    THEN bind(s, <<BindOptions(Num(0), Undef, TRUE), Null>>)
                    ELSE Returned(s)
      bound == implicit.s
  IN  IF a.thrown # "none" THEN Thrown(s, a.thrown)
      ELSE IF implicit.thrown # "none" THEN Thrown(s, implicit.thrown)
      ELSE Returned(schedule(bound, Send(NextId(bound), a.list, a.port, a.host, a.callback)))

close(s, callback) ==
  LET s1 == IF typeof(callback) = "function"
              THEN [s EXCEPT !.listeners["close"] = @ + 1]
              ELSE s
  IN  Returned(schedule(s1, Close(NextId(s1))))

\* -------------------------------------------------------------------------
\* address() and the multicast controls; outcome is how the method of the
\* handle they call settles
\* -------------------------------------------------------------------------

\* _healthCheck refusing a socket that is UNBOUND instead of one without handle
_healthCheck_by_bindState(s) ==
  IF s._bindState = BIND_STATE_UNBOUND THEN "ERR_SOCKET_DGRAM_NOT_RUNNING" ELSE "none"

\* what _healthCheck() throws ("none" when it returns the handle)
_healthCheck(s) == IF s._handle = 0 THEN "ERR_SOCKET_DGRAM_NOT_RUNNING" ELSE "none"

\* a method of the handle is called, and what it throws is wrapped by
\* errnoException
Delegate(s, method, args, outcome) ==
  LET s1 == Logged(s, [k |-> method, id |-> 0, handle |-> s._handle, args |-> args,
                       ok |-> outcome = "ok"])
  IN  IF outcome = "fail" THEN Thrown(s1, "errnoException") ELSE Returned(s1)

\* address(): the record it returns is read off the handle and is not kept
address(s) ==
  IF _healthCheck(s) # "none" THEN Thrown(s, _healthCheck(s)) ELSE Returned(s)

setMulticastLoopback(s, flag, outcome) ==
  IF _healthCheck(s) # "none" THEN Thrown(s, _healthCheck(s))
  ELSE Delegate(s, "setMulticastLoopback", <<flag>>, outcome)

setMulticastInterface(s, interfaceAddress, outcome) ==
  IF _healthCheck(s) # "none" THEN Thrown(s, _healthCheck(s))
  ELSE IF typeof(interfaceAddress) # "string" THEN Thrown(s, "ERR_INVALID_ARG_TYPE")
  ELSE Delegate(s, "setMulticastInterface", <<interfaceAddress>>, outcome)

\* noop
setMulticastTTL(s, ttl) == Returned(s)

\* the test of multicastAddress refusing only a missing argument
MissingArgs_when_undefined(multicastAddress) == multicastAddress = Undef

\* !multicastAddress
MissingArgs(multicastAddress) == ~Truthy(multicastAddress)

addMembership(s, multicastAddress, interfaceAddress, outcome) ==
  IF _healthCheck(s) # "none" THEN Thrown(s, _healthCheck(s))
  ELSE IF MissingArgs(multicastAddress) THEN Thrown(s, "ERR_MISSING_ARGS")
  ELSE Delegate(s, "joinMulticast", <<multicastAddress, interfaceAddress>>, outcome)

dropMembership(s, multicastAddress, interfaceAddress, outcome) ==
  IF _healthCheck(s) # "none" THEN Thrown(s, _healthCheck(s))
  ELSE IF MissingArgs(multicastAddress) THEN Thrown(s, "ERR_MISSING_ARGS")
  ELSE Delegate(s, "leaveMulticast",
                <<multicastAddress,
                  IF Truthy(interfaceAddress) THEN interfaceAddress ELSE Undef>>, outcome)

\* -------------------------------------------------------------------------
\* The state
\* -------------------------------------------------------------------------

VARIABLES
  type,        \* Socket.type
  _reuseAddr,  \* Socket._reuseAddr
  _handle,     \* Socket._handle: 0 is null, h > 0 is handles[h]
  isIdle,      \* Socket.isIdle
  _bindState,  \* Socket._bindState
  workQueue,   \* Socket.workQueue
  loops,       \* the activations of awake() that have not returned
  handles,     \* the underlying sockets created so far
  listeners,   \* listeners registered by bind (once "listening") and close (on "close")
  io,          \* the calls of the host and of the sends' callbacks, in order
  events,      \* the events emitted, in order
  enqueued,    \* every task scheduled, with the number of tasks completed by then
  started,     \* the tasks whose perform() was called, in order
  completed,   \* the tasks whose perform() resolved, in order
  rejected,    \* the tasks whose perform() rejected, with the error
  lastCall,    \* the last call of a public method and what it threw
  ncalls,      \* calls of public methods so far
  nfailed,     \* calls of the host that failed so far
  narrived     \* datagrams arrived so far

vars ==
  <<type, _reuseAddr, _handle, isIdle, _bindState, workQueue, loops, handles,
    listeners, io, events, enqueued, started, completed, rejected,
    lastCall, ncalls, nfailed, narrived>>

\* the mutable state of the socket as one record, for the operators below
Sock ==
  [type |-> type, _reuseAddr |-> _reuseAddr, _handle |-> _handle, isIdle |-> isIdle,
   _bindState |-> _bindState, workQueue |-> workQueue, loops |-> loops,
   handles |-> handles, listeners |-> listeners, io |-> io, events |-> events,
   enqueued |-> enqueued, started |-> started, completed |-> completed,
   rejected |-> rejected]

Commit(s) ==
  /\ type' = s.type
  /\ _reuseAddr' = s._reuseAddr
  /\ _handle' = s._handle
  /\ isIdle' = s.isIdle
  /\ _bindState' = s._bindState
  /\ workQueue' = s.workQueue
  /\ loops' = s.loops
  /\ handles' = s.handles
  /\ listeners' = s.listeners
  /\ io' = s.io
  /\ events' = s.events
  /\ enqueued' = s.enqueued
  /\ started' = s.started
  /\ completed' = s.completed
  /\ rejected' = s.rejected

\* the sockets constructed: new Socket("udp4") and
\* new Socket({ type: "udp6", reuseAddr: true })
Sockets ==
  { [type |-> "udp4", _reuseAddr |-> FALSE], [type |-> "udp6", _reuseAddr |-> TRUE] }

Init ==
  /\ \E socket \in Sockets : type = socket.type /\ _reuseAddr = socket._reuseAddr
  /\ _handle = 0
  /\ isIdle = TRUE
  /\ _bindState = BIND_STATE_UNBOUND
  /\ workQueue = <<>>
  /\ loops = <<>>
  /\ handles = <<>>
  /\ listeners = [listening |-> 0, close |-> 0]
  /\ io = <<>>
  /\ events = <<>>
  /\ enqueued = <<>>
  /\ started = <<>>
  /\ completed = <<>>
  /\ rejected = <<>>
  /\ lastCall = [op |-> "new", thrown |-> "none"]
  /\ ncalls = 0
  /\ nfailed = 0
  /\ narrived = 0

\* -------------------------------------------------------------------------
\* The calls the model makes
\* -------------------------------------------------------------------------

\* bind(5000, onListening)
BindCalls == { <<Num(5000), Fn("onListening")>> }

\* send(["h\'e", b], 4000, "peer.example", cb) and send(xyz, 1, 1, 4000)
SendCalls ==
  { [buffer |-> Arr(<<Str("h\\'e"), U8(<<98>>, 0, 1)>>),
     args |-> <<Num(4000), Str("peer.example"), Fn("cb")>>],
    [buffer |-> U8(<<120, 121, 122>>, 0, 3), args |-> <<Num(1), Num(1), Num(4000)>>] }

\* close(onClose)
CloseCalls == { Fn("onClose") }

\* the sends whose arguments are validated: accepted ones with ports 65535, 1
\* and "4000"; then an unsupported buffer, a list with an unsupported element,
\* the ports 0, 70000, -1 and 65536, an address that is a number, an
\* unsupported buffer with offset and length, and a length of -1
ArgSendCalls ==
  { [buffer |-> U8(<<120>>, 0, 1), args |-> <<Num(65535), Str("peer.example"), Fn("cb")>>],
    [buffer |-> Str("a"), args |-> <<Num(1)>>],
    [buffer |-> Str("a"), args |-> <<Str("4000"), Str("peer.example")>>],
    [buffer |-> Num(7), args |-> <<Num(4000), Str("peer.example")>>],
    [buffer |-> Arr(<<Str("a"), Num(7)>>), args |-> <<Num(4000)>>],
    [buffer |-> Str("a"), args |-> <<Num(0), Str("peer.example")>>],
    [buffer |-> Str("a"), args |-> <<Num(70000)>>],
    [buffer |-> Str("a"), args |-> <<Num(-1)>>],
    [buffer |-> Str("a"), args |-> <<Num(65536)>>],
    [buffer |-> Str("a"), args |-> <<Num(4000), Num(9)>>],
    [buffer |-> Num(7), args |-> <<Num(0), Num(1), Num(4000), Str("peer.example")>>],
    [buffer |-> U8(<<120, 121, 122>>, 0, 3),
     args |-> <<Num(0), Num(-1), Num(4000), Str("peer.example")>>] }

\* -------------------------------------------------------------------------
\* Actions
\* -------------------------------------------------------------------------

\* a public method was called and returned or threw
Called(op, r) ==
  /\ Commit(r.s)
  /\ lastCall' = [op |-> op, thrown |-> r.thrown]
  /\ ncalls' = ncalls + 1
  /\ UNCHANGED <<nfailed, narrived>>

\* a step of the drain loop or of the pump
Step(s) == Commit(s) /\ UNCHANGED <<lastCall, ncalls, nfailed, narrived>>

\* a call of the host settled and the task that awaited it went on
Settled(outcome, s) ==
  /\ outcome = "fail" => nfailed < MaxFailures
  /\ Commit(s)
  /\ nfailed' = IF outcome = "fail" THEN nfailed + 1 ELSE nfailed
  /\ UNCHANGED <<lastCall, ncalls, narrived>>

CallBind(max) ==
  /\ ncalls < max
  /\ \E args \in BindCalls : Called("bind", bind(Sock, args))

CallSend(max) ==
  /\ ncalls < max
  /\ \E c \in SendCalls : Called("send", send(Sock, c.buffer, c.args))

CallClose(max) ==
  /\ ncalls < max
  /\ \E callback \in CloseCalls : Called("close", close(Sock, callback))

\* send called with one of ArgSendCalls; the call is kept with what it threw
CallSendArgs ==
  /\ ncalls < MaxArgCalls
  /\ \E c \in ArgSendCalls :
       LET r == send(Sock, c.buffer, c.args) IN
       /\ Commit(r.s)
       /\ lastCall' = [op |-> "send", thrown |-> r.thrown,
                       buffer |-> c.buffer, args |-> c.args]
       /\ ncalls' = ncalls + 1
       /\ UNCHANGED <<nfailed, narrived>>

\* the arguments address() and the multicast controls are called with
InterfaceAddresses == { Str("192.0.2.1"), Num(7) }

MulticastAddresses == { Str("224.0.0.1"), Str(""), Undef }

\* address() or a multicast control was called: the call is kept with its
\* arguments, how the handle's method would settle and what the call threw
Controlled(op, args, outcome, r) ==
  /\ Commit(r.s)
  /\ lastCall' = [op |-> op, thrown |-> r.thrown, args |-> args, outcome |-> outcome]
  /\ ncalls' = ncalls + 1
  /\ UNCHANGED <<nfailed, narrived>>

CallAddress ==
  /\ ncalls < MaxControlCalls
  /\ Controlled("address", <<>>, "ok", address(Sock))

CallSetMulticastLoopback ==
  /\ ncalls < MaxControlCalls
  /\ \E outcome \in Outcomes :
       Controlled("setMulticastLoopback", <<Num(1)>>, outcome,
                  setMulticastLoopback(Sock, Num(1), outcome))

CallSetMulticastInterface ==
  /\ ncalls < MaxControlCalls
  /\ \E interfaceAddress \in InterfaceAddresses, outcome \in Outcomes :
       Controlled("setMulticastInterface", <<interfaceAddress>>, outcome,
                  setMulticastInterface(Sock, interfaceAddress, outcome))

CallSetMulticastTTL ==
  /\ ncalls < MaxControlCalls
  /\ Controlled("setMulticastTTL", <<Num(1)>>, "ok", setMulticastTTL(Sock, Num(1)))

CallAddMembership ==
  /\ ncalls < MaxControlCalls
  /\ \E multicastAddress \in MulticastAddresses, outcome \in Outcomes :
       Controlled("addMembership", <<multicastAddress>>, outcome,
                  addMembership(Sock, multicastAddress, Undef, outcome))

CallDropMembership ==
  /\ ncalls < MaxControlCalls
  /\ \E multicastAddress \in MulticastAddresses, outcome \in Outcomes :
       Controlled("dropMembership", <<multicastAddress, Str("192.0.2.1")>>, outcome,
                  dropMembership(Sock, multicastAddress, Str("192.0.2.1"), outcome))

\* awake resumes after `await task.perform()`
AwakeResume ==
  \E li \in 1..Len(loops) :
    /\ loops[li].pc = "performed"
    /\ Step(drain(Sock, li))

SpawnResolve ==
  \E li \in 1..Len(loops), outcome \in Outcomes :
    /\ loops[li].pc = "spawn_resolve"
    /\ Settled(outcome, SpawnResolved(Sock, li, outcome))

SpawnCreate ==
  \E li \in 1..Len(loops), outcome \in Outcomes :
    /\ loops[li].pc = "spawn_create"
    /\ Settled(outcome, SpawnCreated(Sock, li, outcome))

SendResolve ==
  \E li \in 1..Len(loops), outcome \in Outcomes :
    /\ loops[li].pc = "send_resolve"
    /\ Settled(outcome, SendResolved(Sock, li, outcome))

SendSend ==
  \E li \in 1..Len(loops), outcome \in Outcomes :
    /\ loops[li].pc = "send_send"
    /\ Settled(outcome, SendSent(Sock, li, outcome))

SendTimer ==
  \E li \in 1..Len(loops) :
    /\ loops[li].pc = "send_timeout"
    /\ Step(SendTimeout(Sock, li))

CloseClose ==
  \E li \in 1..Len(loops), outcome \in Outcomes :
    /\ loops[li].pc = "close_close"
    /\ Settled(outcome, CloseClosed(Sock, li, outcome))

\* the n-th datagram, received by a socket of the given type
Datagram(n, socketType) ==
  [n |-> n, data |-> <<n, n>>,
   from |-> [address |-> "192.0.2.9", family |-> (IF socketType = "udp6" THEN 2 ELSE 1),
             port |-> 4000 + n]]

\* a datagram arrives on an open underlying socket
Arrive ==
  \E h \in 1..Len(handles) :
    /\ ~handles[h].closeCalled
    /\ narrived < MaxDatagrams
    /\ narrived' = narrived + 1
    /\ handles' = [handles EXCEPT ![h].inbound = Append(@, Datagram(narrived + 1, type))]
    /\ UNCHANGED <<type, _reuseAddr, _handle, isIdle, _bindState, workQueue, loops,
                   listeners, io, events, enqueued, started, completed, rejected,
                   lastCall, ncalls, nfailed>>

\* listen taking the newest datagram first
listenMessage_newest_first(s, h) ==
  LET inbound == s.handles[h].inbound
      d == inbound[Len(inbound)]
      s1 == [s EXCEPT !.handles[h].inbound = SubSeq(inbound, 1, Len(inbound) - 1)]
  IN  emit(s1, "message",
           [n |-> d.n, data |-> d.data,
            rinfo |-> [address |-> d.from.address, family |-> toNodeFamily(d.from.family),
                       port |-> d.from.port, size |-> Len(d.data)]], 0)

\* the body of listen's `for await`, for the next datagram of handle.messages()
listenMessage(s, h) ==
  LET d == Head(s.handles[h].inbound)
      s1 == [s EXCEPT !.handles[h].inbound = Tail(@)]
  IN  emit(s1, "message",
           [n |-> d.n, data |-> d.data,
            rinfo |-> [address |-> d.from.address, family |-> toNodeFamily(d.from.family),
                       port |-> d.from.port, size |-> Len(d.data)]], 0)

\* handle.messages() is exhausted: the statement after listen's loop
listenEnd(s, h) == emit([s EXCEPT !.handles[h].pump = "done"], "close", Undef, 0)

PumpMessage ==
  \E h \in 1..Len(handles) :
    /\ handles[h].pump = "running"
    /\ handles[h].inbound # <<>>
    /\ Step(listenMessage(Sock, h))

\* the stream of a socket ends once its close() was called
PumpEnd ==
  \E h \in 1..Len(handles) :
    /\ handles[h].pump = "running"
    /\ handles[h].closeCalled
    /\ Step(listenEnd(Sock, h))

\* the steps of the drain loop and the end of the pump
Tasks ==
  \/ AwakeResume
  \/ SpawnResolve
  \/ SpawnCreate
  \/ SendResolve
  \/ SendSend
  \/ SendTimer
  \/ CloseClose
  \/ PumpEnd

\* the socket with no inbound traffic
Next ==
  \/ CallBind(MaxCalls)
  \/ CallSend(MaxCalls)
  \/ CallClose(MaxCalls)
  \/ Tasks

Spec == Init /\ [][Next]_vars

\* the socket with inbound traffic
NextPump ==
  \/ CallBind(MaxPumpCalls)
  \/ CallSend(MaxPumpCalls)
  \/ CallClose(MaxPumpCalls)
  \/ Tasks
  \/ Arrive
  \/ PumpMessage

SpecPump == Init /\ [][NextPump]_vars

\* the socket whose sends are called with valid and invalid arguments
NextArgs ==
  \/ CallBind(MaxArgCalls)
  \/ CallSendArgs
  \/ CallClose(MaxArgCalls)
  \/ Tasks

SpecArgs == Init /\ [][NextArgs]_vars

\* the socket bound and closed while address() and the multicast controls
\* are called
NextControls ==
  \/ CallBind(MaxControlCalls)
  \/ CallClose(MaxControlCalls)
  \/ CallAddress
  \/ CallSetMulticastLoopback
  \/ CallSetMulticastInterface
  \/ CallSetMulticastTTL
  \/ CallAddMembership
  \/ CallDropMembership
  \/ AwakeResume
  \/ SpawnResolve
  \/ SpawnCreate
  \/ CloseClose
  \/ PumpEnd

SpecControls == Init /\ [][NextControls]_vars

\* -------------------------------------------------------------------------
\* Helpers of the claims
\* -------------------------------------------------------------------------

Range(seq) == { seq[i] : i \in 1..Len(seq) }

IsPrefix(a, b) == Len(a) <= Len(b) /\ SubSeq(b, 1, Len(a)) = a

\* the tasks whose perform() is in progress
InProgress == { id \in Range(started) : id \notin Range(completed) /\
                                        id \notin { r.id : r \in Range(rejected) } }

\* the step is a call of the public method op
IsCall(op) == ncalls' = ncalls + 1 /\ lastCall'.op = op

\* the tasks a step enqueued
Enqueues == SubSeq(enqueued', Len(enqueued) + 1, Len(enqueued'))

KindsOf(entries) == [i \in 1..Len(entries) |-> entries[i].task.kind]

\* the Spawn tasks scheduled and not completed
PendingSpawns ==
  { id \in 1..Len(enqueued) : enqueued[id].task.kind = "Spawn" /\ id \notin Range(completed) }

CountEvents(ev) == Cardinality({ i \in 1..Len(events) : events[i].ev = ev })

\* -------------------------------------------------------------------------
\* The claims
\* -------------------------------------------------------------------------

\* C1: at most one task's perform is in progress at any moment and at most one
\* drain loop runs; a call made while the drain loop runs only appends to the
\* queue: it neither starts a task nor a second loop.
C1_OneTaskAtATime ==
  /\ [](Cardinality(InProgress) <= 1 /\ Len(loops) <= 1)
  /\ [][(ncalls' = ncalls + 1 /\ Len(loops) > 0) =>
          /\ loops' = loops
          /\ started' = started
          /\ IsPrefix(workQueue, workQueue')]_vars

\* a second call was made while the first task was suspended at an await
C1_Witness ==
  /\ ncalls >= 2
  /\ Len(enqueued) >= 2
  /\ enqueued[2].after = 0
  /\ started = <<1>>
  /\ completed = <<>>
  /\ Len(loops) = 1

\* C2: tasks start in exactly the order they were enqueued, each after the
\* one before it completed, and complete in that order; none is skipped or
\* run twice.
C2_FIFO ==
  /\ \A id \in 1..Len(enqueued) : enqueued[id].task.id = id
  /\ started = [i \in 1..Len(started) |-> i]
  /\ Len(started) <= Len(enqueued)
  /\ \A i \in 1..Len(completed) : completed[i] \in Range(started)
  /\ \A i, j \in 1..Len(completed) : i < j => completed[i] < completed[j]
  /\ \A i \in 1..(Len(started) - 1) : i \in Range(completed)

\* three tasks ran, the last two enqueued while an earlier one was executing
C2_Witness ==
  /\ completed = <<1, 2, 3>>
  /\ enqueued[2].after = 0
  /\ enqueued[3].after < 2

\* C3: a failure of a task's asynchronous execution never propagates out of
\* the task: no perform() ever rejects.
C3_NoFailureEscapes == rejected = <<>>

\* C4: bind on a socket that is not UNBOUND throws already-bound and changes
\* nothing; bind on an UNBOUND socket leaves it BINDING when it returns.
C4_SecondBindFails ==
  [][IsCall("bind") =>
       IF _bindState # BIND_STATE_UNBOUND
         THEN /\ lastCall'.thrown = "ERR_SOCKET_ALREADY_BOUND"
              /\ UNCHANGED <<_bindState, _handle, workQueue, isIdle, loops, handles,
                             listeners, io, events, enqueued, started, completed, rejected>>
         ELSE /\ lastCall'.thrown = "none"
              /\ _bindState' = BIND_STATE_BINDING]_vars

\* a bind was refused while the Spawn of the first bind was still resolving
C4_Witness ==
  /\ lastCall = [op |-> "bind", thrown |-> "ERR_SOCKET_ALREADY_BOUND"]
  /\ Len(loops) = 1
  /\ loops[1].task.kind = "Spawn"
  /\ loops[1].pc = "spawn_resolve"

\* C5: send on an UNBOUND socket enqueues one Spawn for port 0 and then its
\* Send; send while a bind is pending enqueues its Send only; there is never
\* more than one "listening" event, and one was emitted before anything is
\* transmitted.
C5_OneImplicitBind ==
  /\ [][IsCall("send") =>
          /\ lastCall'.thrown = "none"
          /\ _bindState = BIND_STATE_UNBOUND =>
               /\ KindsOf(Enqueues) = <<"Spawn", "Send">>
               /\ Enqueues[1].task.port = Num(0)
          /\ PendingSpawns # {} => KindsOf(Enqueues) = <<"Send">>]_vars
  /\ [](/\ CountEvents("listening") <= 1
        /\ (\E i \in 1..Len(io) : io[i].k = "send") => CountEvents("listening") = 1)

\* two sends on an unbound socket: one Spawn, then the second Send transmits
C5_Witness ==
  /\ Len(enqueued) = 3
  /\ KindsOf(enqueued) = <<"Spawn", "Send", "Send">>
  /\ \E i \in 1..Len(io) : io[i].k = "send" /\ io[i].id = 3

\* a Close task completed before task t was scheduled
ClosedBefore(t) ==
  \E j \in 1..enqueued[t].after : enqueued[completed[j]].task.kind = "Close"

\* a Close task that closed a live handle completed before task t was scheduled
ClosedLiveBefore(t) ==
  \E j \in 1..enqueued[t].after :
    /\ enqueued[completed[j]].task.kind = "Close"
    /\ \E i \in 1..Len(io) : io[i].k = "close" /\ io[i].id = completed[j]

\* task t transmitted nothing, called no callback and emitted no event
Dropped(t) ==
  /\ \A i \in 1..Len(io) : io[i].id # t
  /\ \A i \in 1..Len(events) : events[i].by # t

Sends == { t \in 1..Len(enqueued) : enqueued[t].task.kind = "Send" }

\* C6, as claimed: once a Close task has completed, whatever the socket's
\* history, a later send triggers no bind and its Send task is dropped.
C6_SendAfterAnyClose ==
  /\ [](\A t \in Sends : ClosedBefore(t) => Dropped(t))
  /\ [][(IsCall("send") /\ \E j \in 1..Len(completed) :
                             enqueued[completed[j]].task.kind = "Close")
          => KindsOf(Enqueues) = <<"Send">>]_vars

\* C6, amended: once a Close task that found a live handle has completed, a
\* later send triggers no bind and its Send task is dropped.
C6_SendAfterClose ==
  /\ [](\A t \in Sends : ClosedLiveBefore(t) => Dropped(t))
  /\ [][(IsCall("send") /\ \E j \in 1..Len(completed) :
                             /\ enqueued[completed[j]].task.kind = "Close"
                             /\ \E i \in 1..Len(io) : io[i].k = "close" /\
                                                      io[i].id = completed[j])
          => KindsOf(Enqueues) = <<"Send">>]_vars

\* a Send scheduled after the close of a bound socket completed was performed
C6_Witness ==
  \E t \in Sends : ClosedLiveBefore(t) /\ t \in Range(completed)

\* C7: while _handle is set, a Spawn has completed with "listening" and no
\* Close has started on that handle; _handle is written only by the task the
\* one drain loop is performing, set by a Spawn as it completes and cleared
\* by a Close as it starts; a Spawn that fails leaves it null.
C7_HandleLifetime ==
  /\ [](_handle # 0 =>
          /\ \E i \in 1..Len(events) :
               /\ events[i].ev = "listening"
               /\ enqueued[events[i].by].task.kind = "Spawn"
               /\ events[i].by \in Range(completed)
          /\ \A i \in 1..Len(io) : io[i].k = "close" => io[i].handle # _handle)
  /\ [][_handle' # _handle =>
          /\ Len(loops') = 1
          /\ \/ /\ loops'[1].task.kind = "Spawn"
                /\ _handle = 0
                /\ completed' = Append(completed, loops'[1].task.id)
             \/ /\ loops'[1].task.kind = "Close"
                /\ _handle' = 0
                /\ started' = Append(started, loops'[1].task.id)]_vars
  /\ [][(/\ Len(loops) = 1
         /\ loops[1].task.kind = "Spawn"
         /\ nfailed' = nfailed + 1) => _handle' = 0]_vars

\* the handle was set by a Spawn and cleared by a Close
C7_Witness ==
  /\ _handle = 0
  /\ \E i \in 1..Len(io) : io[i].k = "close"
  /\ nfailed = 1

Messages == { i \in 1..Len(events) : events[i].ev = "message" }

\* C8: every "message" event follows "listening"; the n-th "message" event
\* carries the n-th datagram; at most one "close" event is emitted, exactly
\* one once the stream is exhausted, and no "message" event follows it.
C8_PumpEvents ==
  /\ \A i \in Messages : \E j \in 1..(i - 1) : events[j].ev = "listening"
  /\ \A i \in Messages :
       LET n == Cardinality({ j \in Messages : j <= i })
       IN  /\ events[i].arg.n = n
           /\ events[i].arg.data = Datagram(n, type).data
           /\ events[i].arg.rinfo.size = Len(Datagram(n, type).data)
  /\ CountEvents("close") <= 1
  /\ \A h \in 1..Len(handles) : handles[h].pump = "done" => CountEvents("close") = 1
  /\ \A i \in 1..Len(events) : events[i].ev = "close" => \A j \in Messages : j < i

\* two datagrams were delivered and then the stream ended
C8_Witness ==
  /\ Cardinality(Messages) = 2
  /\ CountEvents("close") = 1

\* the step in which the Spawn being performed fails
SpawnFails ==
  /\ Len(loops) = 1
  /\ loops[1].task.kind = "Spawn"
  /\ nfailed' = nfailed + 1

\* the Spawn scheduled last has failed
LastSpawnFailed ==
  \E id \in 1..Len(enqueued) :
    /\ enqueued[id].task.kind = "Spawn"
    /\ \E i \in 1..Len(events) : events[i].ev = "error" /\ events[i].by = id
    /\ \A later \in (id + 1)..Len(enqueued) : enqueued[later].task.kind # "Spawn"

\* C9: a Spawn that fails leaves the socket UNBOUND with no handle, emits
\* one "error" event carrying the failure and completes; a bind called after
\* that is accepted and enqueues a Spawn.
C9_FailedSpawn ==
  /\ [][SpawnFails =>
          /\ _bindState' = BIND_STATE_UNBOUND
          /\ _handle' = 0
          /\ events' = Append(events,
               [ev |-> "error",
                arg |-> (IF loops[1].pc = "spawn_resolve" THEN "EDNS" ELSE "ECREATE"),
                by |-> loops[1].task.id, called |-> 0])
          /\ completed' = Append(completed, loops[1].task.id)
          /\ rejected' = rejected]_vars
  /\ [][(IsCall("bind") /\ LastSpawnFailed) =>
          /\ lastCall'.thrown = "none"
          /\ KindsOf(Enqueues) = <<"Spawn">>]_vars

\* a bind was accepted after a Spawn had failed
C9_Witness ==
  /\ lastCall = [op |-> "bind", thrown |-> "none"]
  /\ nfailed = 1
  /\ \E i \in 1..Len(events) :
       /\ events[i].ev = "error"
       /\ enqueued[events[i].by].task.kind = "Spawn"
       /\ enqueued[Len(enqueued)].task.kind = "Spawn"
       /\ events[i].by < Len(enqueued)

\* what task t did on the wire and to its callback, in order
IoOf(t) ==
  LET Mine(e) == e.id = t /\ e.k \in {"send", "sent", "callback"}
  IN  SelectSeq(io, Mine)

\* every transmission of task t so far succeeded
AllSent(t) == \A i \in 1..Len(io) : (io[i].id = t /\ io[i].k = "sent") => io[i].ok

\* the j-th record of a Send task whose transmissions all succeed; payload(b)
\* is what is transmitted for the element b of the list
SendRecord(task, e, j, payload(_)) ==
  LET n == Len(task.list) IN
  CASE j <= 2 * n /\ j % 2 = 1 ->
         /\ e.k = "send"
         /\ e.i = (j + 1) \div 2
         /\ e.host = DNSRecord(task.address.v)[1]
         /\ e.port = task.port
         /\ e.data = payload(task.list[e.i])
    [] j <= 2 * n /\ j % 2 = 0 -> e.k = "sent" /\ e.i = j \div 2
    [] j = 2 * n + 1 -> e.k = "callback" /\ e.arg = "null" /\ Truthy(task.callback)
    [] OTHER -> FALSE

\* the transmissions of task t are those of its list in order, each started
\* after the one before it completed, to the resolved host and the port, then
\* the callback with null, once; and the next task starts only after them all
InOrder(t, payload(_)) ==
  LET task == enqueued[t].task
      mine == IoOf(t)
      all == 2 * Len(task.list) + (IF Truthy(task.callback) THEN 1 ELSE 0)
  IN  AllSent(t) =>
        /\ \A j \in 1..Len(mine) : SendRecord(task, mine[j], j, payload)
        /\ (t + 1 \in Range(started) /\ mine # <<>>) => Len(mine) = all

\* the ArrayBuffer under a buffer
Backing(buffer) == buffer.data

SendsBackingInOrder == \A t \in Sends : InOrder(t, Backing)

\* the positions of io at which a transmission of task t failed
FailedAt(t) == { p \in 1..Len(io) : io[p].id = t /\ io[p].k = "sent" /\ ~io[p].ok }

\* the positions of io at which the callback of task t was called
CallbacksOf(t) == { p \in 1..Len(io) : io[p].id = t /\ io[p].k = "callback" }

\* C11: when a transmission of a Send task fails, no further buffer of the
\* task is transmitted, its callback, if any, is called once, with the error
\* and never with null, no "error" event is emitted by the task, and the task
\* completes with the drain loop going on to the next task.
C11_FailedSend ==
  \A t \in Sends : \A p \in FailedAt(t) :
    /\ \A q \in (p + 1)..Len(io) : ~(io[q].id = t /\ io[q].k \in {"send", "sent"})
    /\ \A q \in CallbacksOf(t) : io[q].arg = "ESEND" /\ q = p + 1
    /\ Cardinality(CallbacksOf(t)) = (IF Truthy(enqueued[t].task.callback) THEN 1 ELSE 0)
    /\ \A i \in 1..Len(events) : events[i].by # t
    /\ t \in Range(completed)
    /\ \A r \in Range(rejected) : r.id # t
    /\ t + 1 \in 1..Len(enqueued) =>
         \/ t + 1 \in Range(started)
         \/ Len(loops) = 1 /\ loops[1].pc = "performed" /\ loops[1].task.id = t

\* the first of two transmissions of a Send with a callback failed and the
\* task queued behind it was performed
C11_Witness ==
  \E t \in Sends :
    /\ Len(enqueued[t].task.list) = 2
    /\ Truthy(enqueued[t].task.callback)
    /\ \E p \in FailedAt(t) : io[p].i = 1
    /\ t + 1 \in Range(completed)

\* the call has an offset and a length before its port
HasSlice(call) ==
  \/ Truthy(Arg(call.args, 4))
  \/ Truthy(Arg(call.args, 3)) /\ typeof(Arg(call.args, 3)) # "function"

\* the port and the address a call of send gives
PortGiven(call) == IF HasSlice(call) THEN Arg(call.args, 3) ELSE Arg(call.args, 1)

AddressGiven(call) == IF HasSlice(call) THEN Arg(call.args, 4) ELSE Arg(call.args, 2)

BufferLike(value) == value.t \in {"string", "Uint8Array"}

\* the buffer is neither a string, nor a byte array, nor a list (a list
\* cannot be sliced either)
UnsupportedBuffer(call) ==
  ~BufferLike(call.buffer) /\ (call.buffer.t # "Array" \/ HasSlice(call))

\* the buffer is a list with an element that is neither string nor byte array
UnsupportedElement(call) ==
  /\ call.buffer.t = "Array"
  /\ \E i \in 1..Len(call.buffer.items) : ~BufferLike(call.buffer.items[i])

\* the number the port stands for lies in 1..65535
PortInRange(port) ==
  \/ port.t = "number" /\ port.v \in 1..65535
  \/ port = Str("4000")

\* the number a port within range stands for
PortValue(port) == IF port.t = "number" THEN port.v ELSE 4000

\* the address is truthy and neither a string nor a callback
BadAddress(call) ==
  Truthy(AddressGiven(call)) /\ typeof(AddressGiven(call)) \notin {"string", "function"}

\* the fields of the socket and the records of what it did
SocketState ==
  <<type, _reuseAddr, _handle, isIdle, _bindState, workQueue, loops, handles,
    listeners, io, events, enqueued, started, completed, rejected>>

\* C12: a send with a buffer of an unsupported shape, a list with an
\* unsupported element, a bad port or a non-string truthy address throws, and
\* a send that throws leaves the socket as it was: nothing is enqueued and
\* _bindState, _handle and isIdle keep their values.
C12_RejectedSend ==
  [][IsCall("send") =>
       /\ (\/ UnsupportedBuffer(lastCall')
           \/ UnsupportedElement(lastCall')
           \/ ~PortInRange(PortGiven(lastCall'))
           \/ BadAddress(lastCall')) => lastCall'.thrown # "none"
       /\ lastCall'.thrown # "none" => UNCHANGED SocketState]_vars

\* a send was rejected on a socket that was still UNBOUND, a first one having
\* been rejected or a bind having failed before
C12_Witness ==
  /\ lastCall.op = "send"
  /\ lastCall.thrown # "none"
  /\ ncalls = 2
  /\ _bindState = BIND_STATE_UNBOUND
  /\ workQueue = <<>>

\* C13: a send whose buffer and address are valid is accepted exactly when
\* its port, coerced to an unsigned 32-bit value, lies in 1..65535, and its
\* Send task then carries that value; otherwise (0, 70000, 65536, -1) it
\* throws bad-port and enqueues nothing.
C13_PortRange ==
  [][(/\ IsCall("send")
      /\ ~UnsupportedBuffer(lastCall')
      /\ ~UnsupportedElement(lastCall')
      /\ ~BadAddress(lastCall')) =>
       IF PortInRange(PortGiven(lastCall'))
         THEN /\ lastCall'.thrown = "none"
              /\ Len(enqueued') > Len(enqueued)
              /\ enqueued'[Len(enqueued')].task.kind = "Send"
              /\ enqueued'[Len(enqueued')].task.port = PortValue(PortGiven(lastCall'))
         ELSE /\ lastCall'.thrown = "ERR_SOCKET_BAD_PORT"
              /\ enqueued' = enqueued]_vars

\* port 70000 was refused after a send to port 65535 had been accepted
C13_Witness ==
  /\ lastCall.op = "send"
  /\ lastCall.thrown = "ERR_SOCKET_BAD_PORT"
  /\ PortGiven(lastCall) = Num(70000)
  /\ \E t \in Sends : enqueued[t].task.port = 65535

\* the call gives an offset and a negative length
NegativeLength(call) ==
  /\ HasSlice(call)
  /\ Arg(call.args, 2).t = "number"
  /\ Arg(call.args, 2).v < 0

\* C14: a send with an offset and a negative length throws
\* invalid-argument-type and enqueues nothing.
C14_NegativeLengthThrows ==
  [][(IsCall("send") /\ NegativeLength(lastCall')) =>
       /\ lastCall'.thrown = "ERR_INVALID_ARG_TYPE"
       /\ enqueued' = enqueued]_vars

\* the outcome C14 compares with: a buffer that is neither string, byte array
\* nor list of either throws invalid-argument-type and enqueues nothing
UnsupportedBufferThrows ==
  [][(IsCall("send") /\ (UnsupportedBuffer(lastCall') \/ UnsupportedElement(lastCall'))) =>
       /\ lastCall'.thrown = "ERR_INVALID_ARG_TYPE"
       /\ enqueued' = enqueued]_vars

\* the step is a call of addMembership or dropMembership
IsMembershipCall ==
  ncalls' = ncalls + 1 /\ lastCall'.op \in {"addMembership", "dropMembership"}

\* C15, as claimed: addMembership and dropMembership with a falsy multicast
\* address throw missing-argument in every state of the socket, and call no
\* method of the handle.
C15_MissingArgsAnyState ==
  [][(IsMembershipCall /\ ~Truthy(lastCall'.args[1])) =>
       /\ lastCall'.thrown = "ERR_MISSING_ARGS"
       /\ UNCHANGED SocketState]_vars

\* C15, amended: with a falsy multicast address they throw missing-argument
\* when the socket has a handle and not-running when it has none, and call no
\* method of the handle in either case.
C15_MissingArgs ==
  [][(IsMembershipCall /\ ~Truthy(lastCall'.args[1])) =>
       /\ lastCall'.thrown = (IF _handle # 0 THEN "ERR_MISSING_ARGS"
                              ELSE "ERR_SOCKET_DGRAM_NOT_RUNNING")
       /\ UNCHANGED SocketState]_vars

\* addMembership("") was refused for its argument on a bound socket
C15_Witness ==
  /\ lastCall.op = "addMembership"
  /\ lastCall.args = <<Str("")>>
  /\ lastCall.thrown = "ERR_MISSING_ARGS"
  /\ _handle # 0

HandleMethods ==
  {"address", "setMulticastLoopback", "setMulticastInterface", "addMembership",
   "dropMembership"}

\* the step is a call of address() or of a multicast control that needs the handle
IsHandleCall == ncalls' = ncalls + 1 /\ lastCall'.op \in HandleMethods

\* the arguments of the call are ones the method accepts
ValidControl(call) ==
  CASE call.op = "setMulticastInterface" -> call.args[1].t = "string"
    [] call.op \in {"addMembership", "dropMembership"} -> Truthy(call.args[1])
    [] OTHER -> TRUE

\* a Spawn has created a handle and no Close task has started on it
Running ==
  /\ Len(handles) > 0
  /\ \A i \in 1..Len(io) : io[i].k = "close" => io[i].handle # Len(handles)

\* C16: address(), setMulticastLoopback, setMulticastInterface, addMembership
\* and dropMembership throw not-running exactly when _handle is null at the
\* call, which is before a Spawn has created a handle and from the start of
\* the Close task on it; with a handle, valid arguments and a handle method
\* that succeeds they return.  setMulticastTTL always returns.
C16_NotRunning ==
  [][/\ IsHandleCall =>
          /\ lastCall'.thrown = "ERR_SOCKET_DGRAM_NOT_RUNNING" <=> _handle = 0
          /\ lastCall'.thrown = "ERR_SOCKET_DGRAM_NOT_RUNNING" <=> ~Running
          /\ (Running /\ ValidControl(lastCall') /\ lastCall'.outcome = "ok")
               => lastCall'.thrown = "none"
     /\ IsCall("setMulticastTTL") => lastCall'.thrown = "none"]_vars

\* close() was called during the bind; addMembership then succeeded before
\* the Close task started, and a later call threw not-running while the
\* underlying close was in flight
C16_Witness ==
  /\ lastCall.op \in HandleMethods
  /\ lastCall.thrown = "ERR_SOCKET_DGRAM_NOT_RUNNING"
  /\ Len(loops) = 1
  /\ loops[1].pc = "close_close"
  /\ \E t \in 1..Len(enqueued) : enqueued[t].task.kind = "Close" /\ enqueued[t].after = 0
  /\ \E i \in 1..Len(io) : io[i].k = "joinMulticast" /\ io[i].ok

\* the step in which the drain loop calls perform() of a Close task
CloseStarts ==
  /\ Len(started') = Len(started) + 1
  /\ enqueued'[started'[Len(started')]].task.kind = "Close"

\* C17: a Close task performed while _handle is null emits one "error" event
\* with not-running and nothing else, does not call the underlying close,
\* leaves _bindState and _handle as they were and completes at once, the
\* drain loop going on.
C17_CloseWithoutHandle ==
  [][(CloseStarts /\ _handle = 0) =>
       LET t == started'[Len(started')] IN
       /\ events' = Append(events, [ev |-> "error", arg |-> "ERR_SOCKET_DGRAM_NOT_RUNNING",
                                    by |-> t, called |-> 0])
       /\ io' = io
       /\ handles' = handles
       /\ _bindState' = _bindState
       /\ _handle' = 0
       /\ completed' = Append(completed, t)
       /\ rejected' = rejected
       /\ Len(loops') = 1
       /\ loops'[1].pc = "performed"]_vars

\* a second close(): the first Close task closed the handle, the second found
\* none, emitted "error" and completed
C17_Witness ==
  \E t1, t2 \in 1..Len(enqueued) :
    /\ t1 < t2
    /\ enqueued[t1].task.kind = "Close"
    /\ enqueued[t2].task.kind = "Close"
    /\ \E i \in 1..Len(io) : io[i].k = "close" /\ io[i].id = t1
    /\ \E i \in 1..Len(events) : events[i].ev = "error" /\ events[i].by = t2
    /\ t2 \in Range(completed)

\* the "error" events with which a Close task reported that it found no handle
DeadCloses ==
  { i \in 1..Len(events) :
      /\ events[i].ev = "error"
      /\ events[i].arg = "ERR_SOCKET_DGRAM_NOT_RUNNING"
      /\ enqueued[events[i].by].task.kind = "Close" }

\* the calls of the underlying close
LiveCloses == { i \in 1..Len(io) : io[i].k = "close" }

\* C18, as claimed: once a close() has found the socket without a handle, no
\* "close" event follows and so the callback it registered is never called.
C18_NoCloseAfterDeadClose ==
  \A i \in DeadCloses : \A j \in (i + 1)..Len(events) : events[j].ev # "close"

\* C18, amended: a "close" event is emitted by the pump only, when the stream
\* of a handle whose close was called by a Close task has ended; there are
\* no more "close" events than Close tasks that found a handle, so a Close
\* task that finds none causes no "close" event; the callbacks registered by
\* every close() so far, that of a close() that found no handle included, are
\* called with that event and not before.
C18_CloseFromPumpOnly ==
  /\ \A j \in 1..Len(events) : events[j].ev = "close" =>
       /\ events[j].by = 0
       /\ \E h \in 1..Len(handles) :
            /\ handles[h].pump = "done"
            /\ handles[h].closeCalled
            /\ \E i \in LiveCloses : io[i].handle = h
       /\ events[j].called \in 1..listeners["close"]
  /\ CountEvents("close") <= Cardinality(LiveCloses)
  /\ \A j \in 1..Len(events) : events[j].by # 0 => events[j].ev \in {"listening", "error"}

\* close(onClose) on a socket never bound reported not-running; the socket was
\* then bound and closed, and the "close" event called both callbacks
C18_Witness ==
  \E i \in DeadCloses : \E l, j \in (i + 1)..Len(events) :
    /\ events[l].ev = "listening"
    /\ l < j
    /\ events[j].ev = "close"
    /\ events[j].called = 2

\* C19: whenever the socket is not idle a drain loop is running, so that the
\* tasks of the queue are performed and the socket returns to idle; and an
\* idle socket has an empty queue, so that the next schedule starts a drain.
C19_IdleIffNotDraining ==
  /\ isIdle <=> Len(loops) = 0
  /\ isIdle => workQueue = <<>>

\* the same as long as no perform() has rejected
DrainsUnlessRejected == rejected = <<>> => C19_IdleIffNotDraining

\* the Spawn tasks that created a handle
Succeeded ==
  { t \in 1..Len(enqueued) :
      /\ enqueued[t].task.kind = "Spawn"
      /\ \E i \in 1..Len(events) : events[i].ev = "listening" /\ events[i].by = t }

\* C20: at most one Spawn succeeds, so at most one handle is created and one
\* pump started; _bindState is not UNBOUND while _handle is set, and stays
\* what the successful bind made it, after Close too; no Spawn is enqueued
\* after the one that succeeded, and every bind called after it throws
\* already-bound and enqueues nothing.
C20_OneHandle ==
  /\ [](/\ Cardinality(Succeeded) <= 1
        /\ Len(handles) = Cardinality(Succeeded)
        /\ Cardinality({ h \in 1..Len(handles) : handles[h].pump # "none" }) <= 1
        /\ _handle # 0 => _bindState # BIND_STATE_UNBOUND
        /\ Succeeded # {} => _bindState = BIND_STATE_BINDING
        /\ \A t \in Succeeded : \A later \in (t + 1)..Len(enqueued) :
             enqueued[later].task.kind # "Spawn")
  /\ [][(IsCall("bind") /\ Succeeded # {}) =>
          /\ lastCall'.thrown = "ERR_SOCKET_ALREADY_BOUND"
          /\ enqueued' = enqueued]_vars

\* bind was refused after the socket had been bound and its close completed
C20_Witness ==
  /\ lastCall = [op |-> "bind", thrown |-> "ERR_SOCKET_ALREADY_BOUND"]
  /\ Succeeded # {}
  /\ _handle = 0
  /\ \E i \in LiveCloses : io[i].id \in Range(completed)
  /\ isIdle

====
